---- MODULE Spec2Model ----
(***************************************************************************)
(* KanMind: boards, tasks and comments behind a Django REST Framework API. *)
(* The state is the content of the database tables (Board with its         *)
(* members relation, Task, Comment) plus the outcome of the last request.  *)
(* Every action is one HTTP request: permission checks, serializer         *)
(* validation and the database writes, in the order DRF runs them.         *)
(*                                                                         *)
(* Fields no permission or validation rule reads (task title, description, *)
(* priority, due_date, comment content, created_at) are not modelled.      *)
(***************************************************************************)
EXTENDS Integers, FiniteSets, TLC

\* ------------------------------------------------------------------ bounds
NumUsers == 2
MaxBoards == 2
MaxTasks == 1
MaxComments == 2
\* comments in the specification of all requests
MaxCommentsAll == 1
\* requests that run at the same time
MaxInFlight == 2

Users == 1..NumUsers
\* an id that resolves to no User row
UnknownUser == NumUsers + 1
\* Python's None (primary keys start at 1)
None == 0

BoardIds == 1..MaxBoards
TaskIds == 1..MaxTasks
CommentIds == 1..MaxComments

Titles == {"a", "b"}

\* ------------------------------------------------------------------ models.py
STATUS_CHOICES == {"to-do", "in-progress", "review", "done"}

\* Task.status: default='todo'
StatusDefault == "todo"

VARIABLES
    boards,      \* Board rows: id -> [title, owner, members]
    tasks,       \* Task rows: id -> [board, status, assignee, reviewer, created_by]
    comments,    \* Comment rows: id -> [task, author]
    nextId,      \* the auto-increment primary key of each table
    pending,     \* requests that are validated and have not written yet, per kind
    last         \* the last request and its response

vars == <<boards, tasks, comments, nextId, pending, last>>

\* ------------------------------------------------------------------ responses
\* A request and what its caller gets back. op, actor, id (the object the
\* route names, or the one created) and req (the route's task_pk and the
\* payload's title, members and board) are the request; res is the HTTP
\* outcome (OK, NotFound 404, Forbidden 403, ValidationFailed 400), msg the
\* error message, ids what the response lists (the user ids of an error
\* message, the comment ids of a comment list, <<id, n>> for a board or task
\* list: n the times the board is listed, the comments_count of the task),
\* deleted the number of Board, Task and Comment rows a delete removed.
Response(op, actor, id, req, res, msg, ids, deleted) ==
    [op |-> op, actor |-> actor, id |-> id, req |-> req, res |-> res,
     msg |-> msg, ids |-> ids, deleted |-> deleted]

Ok(op, actor, id, req) == Response(op, actor, id, req, "OK", "", {}, 0)
Denied(op, actor, id, req, res) == Response(op, actor, id, req, res, "", {}, 0)
Invalid(op, actor, id, req, msg, ids) ==
    Response(op, actor, id, req, "ValidationFailed", msg, ids, 0)

\* the part of a payload that last records
Keep(data) == [k \in DOMAIN data \cap {"title", "members", "board"} |-> data[k]]

\* A request payload is a function from the keys it holds to their values.
\* data.get(key): None for a key the payload does not have
Get(data, key) == IF key \in DOMAIN data THEN data[key] ELSE None

\* the payloads that hold key with a value of vals, or do not hold it
Opt(key, vals) == {<<>>} \cup {[k \in {key} |-> v] : v \in vals}

\* f with the row k removed / added
Without(f, ks) == [k \in DOMAIN f \ ks |-> f[k]]

\* ------------------------------------------------------------------ permissions.py
\* board.owner == request.user or board.members.filter(id=request.user.id).exists()
IsOwnerOrMember(user, b) ==
    boards[b].owner = user \/ user \in boards[b].members

\* the board or task is looked up and its members are not
IsTaskBoardMemberOrOwner_has_permission_Exists(method, user, data, kwargs) ==
    IF method = "POST"
    THEN LET board_id == Get(data, "board")
             task_id == Get(kwargs, "task_pk")
         IN  IF board_id # None
             THEN IF board_id \notin DOMAIN boards THEN "NotFound" ELSE "OK"
             ELSE IF task_id = None THEN "Forbidden"
                  ELSE IF task_id \notin DOMAIN tasks THEN "NotFound" ELSE "OK"
    ELSE LET task_id == IF Get(kwargs, "pk") # None THEN Get(kwargs, "pk")
                        ELSE Get(kwargs, "task_pk")
         IN  IF task_id = None THEN "Forbidden"
             ELSE IF task_id \notin DOMAIN tasks THEN "NotFound" ELSE "OK"

\* IsTaskBoardMemberOrOwner.has_permission; pk and task_pk are the route's
\* kwargs (kwargs holds the ones the route has), board_id is
\* request.data.get('board')
IsTaskBoardMemberOrOwner_has_permission(method, user, data, kwargs) ==
    IF method = "POST"
    THEN LET board_id == Get(data, "board")
             task_id == Get(kwargs, "task_pk")
         IN  IF board_id # None
             THEN IF board_id \notin DOMAIN boards THEN "NotFound"
                  ELSE IF IsOwnerOrMember(user, board_id) THEN "OK" ELSE "Forbidden"
             ELSE IF task_id = None THEN "Forbidden"
                  ELSE IF task_id \notin DOMAIN tasks THEN "NotFound"
                  ELSE IF IsOwnerOrMember(user, tasks[task_id].board) THEN "OK"
                  ELSE "Forbidden"
    ELSE LET task_id == IF Get(kwargs, "pk") # None THEN Get(kwargs, "pk")
                        ELSE Get(kwargs, "task_pk")
         IN  IF task_id = None THEN "Forbidden"
             ELSE IF task_id \notin DOMAIN tasks THEN "NotFound"
             ELSE IF IsOwnerOrMember(user, tasks[task_id].board) THEN "OK"
             ELSE "Forbidden"

\* IsTaskBoardMemberOrOwner.has_object_permission
IsTaskBoardMemberOrOwner_has_object_permission(method, user, t) ==
    IF method = "DELETE"
    THEN boards[tasks[t].board].owner = user \/ tasks[t].created_by = user
    ELSE IsOwnerOrMember(user, tasks[t].board)

\* IsBoardMemberOrOwner.has_object_permission
IsBoardMemberOrOwner_has_object_permission(method, user, b) ==
    IF method = "DELETE"
    THEN boards[b].owner = user
    ELSE IsOwnerOrMember(user, b)

\* the owner of the board may delete too
IsCommentAuthor_OrOwner(user, c) ==
    comments[c].author = user \/ boards[tasks[comments[c].task].board].owner = user

\* IsCommentAuthor.has_object_permission
IsCommentAuthor_has_object_permission(user, c) ==
    comments[c].author = user

\* ------------------------------------------------------------------ serializers.py
\* User.objects.filter(id__in=ids)
UsersIn(ids) == ids \cap Users

\* BoardSerializer.validate: "" when the data is valid, else the error
BoardSerializer_validate(members_ids) ==
    IF Cardinality(UsersIn(members_ids)) # Cardinality(members_ids)
    THEN "users do not exist"
    ELSE ""

\* BoardSerializer.create: the new Board row
BoardSerializer_create(owner, title, members_ids) ==
    [title |-> title, owner |-> owner, members |-> UsersIn(members_ids \cup {owner})]

\* the owner is not appended
MembersValue_NoOwner(b, value) == value

\* BoardUpdateSerializer.validate_members, lines 186-188: the owner is appended
MembersValue(b, value) == value \cup {boards[b].owner}

\* the tasks of board b (instance.tasks.all(); Task.board is on_delete=CASCADE)
TasksOf(b) == {t \in DOMAIN tasks : tasks[t].board = b}

\* only the assignee of a task is looked at
BlockedUsers_AssigneeOnly(b, value) ==
    LET removed_ids == boards[b].members \ value
        linked == {t \in TasksOf(b) : tasks[t].assignee \in removed_ids}
    IN  UNION {{tasks[t].assignee, tasks[t].reviewer} : t \in linked} \ {None}

\* BoardUpdateSerializer.validate_members, lines 194-206
BlockedUsers(b, value) ==
    LET removed_ids == boards[b].members \ value
        linked == {t \in TasksOf(b) : tasks[t].assignee \in removed_ids
                                         \/ tasks[t].reviewer \in removed_ids}
    IN  UNION {{tasks[t].assignee, tasks[t].reviewer} : t \in linked} \ {None}

\* linked users are kept as members instead of failing the validation
BoardUpdateSerializer_validate_members_Keep(b, members) ==
    LET value == MembersValue(b, members)
    IN  IF Cardinality(UsersIn(value)) # Cardinality(value)
        THEN [err |-> "invalid user ids", ids |-> {}, value |-> value]
        ELSE [err |-> "", ids |-> {}, value |-> value \cup BlockedUsers(b, value)]

\* BoardUpdateSerializer.validate_members: the error ("" when valid), the ids
\* the error lists, and the validated value
BoardUpdateSerializer_validate_members(b, members) ==
    LET value == MembersValue(b, members)
    IN  IF Cardinality(UsersIn(value)) # Cardinality(value)
        THEN [err |-> "invalid user ids", ids |-> {}, value |-> value]
        ELSE IF BlockedUsers(b, value) # {}
        THEN [err |-> "users linked to tasks", ids |-> BlockedUsers(b, value), value |-> value]
        ELSE [err |-> "", ids |-> {}, value |-> value]

\* BoardUpdateSerializer.update: the Board row after the update; instance is
\* the row the view loaded, b the board's id. instance.save() writes the
\* loaded title and owner, members.set() runs only for a payload with members
BoardUpdateSerializer_update(b, instance, validated_data) ==
    [title   |-> IF "title" \in DOMAIN validated_data
                 THEN validated_data["title"] ELSE instance.title,
     owner   |-> instance.owner,
     members |-> IF "members" \in DOMAIN validated_data
                 THEN UsersIn(validated_data["members"]) ELSE boards[b].members]

\* TaskSerializer's fields: board is a PrimaryKeyRelatedField over all boards,
\* status a choice field; "" when every field of the payload is valid
TaskSerializer_fields(data) ==
    IF "board" \in DOMAIN data /\ data["board"] \notin DOMAIN boards
    THEN "board does not exist"
    ELSE IF "status" \in DOMAIN data /\ data["status"] \notin STATUS_CHOICES
    THEN "not a valid choice"
    ELSE ""

\* an update takes the board of the payload
TaskSerializer_validate_MoveBoard(method, request_user, instance, data) ==
    LET board == IF "board" \in DOMAIN data THEN data["board"]
                 ELSE IF instance # None THEN tasks[instance].board ELSE None
        assignee_id == Get(data, "assignee_id")
        reviewer_id == Get(data, "reviewer_id")
        err == IF method = "POST" /\ Get(data, "board") = None
                   THEN "board_id is required"
               ELSE IF board # None /\ request_user \notin boards[board].members
                   THEN "Not a member of the board"
               ELSE IF assignee_id # None /\ assignee_id \notin boards[board].members
                   THEN "Assignee is not a member of the board"
               ELSE IF reviewer_id # None /\ reviewer_id \notin boards[board].members
                   THEN "Reviewer is not a member of the board"
               ELSE ""
    IN  [err |-> err, board |-> board]

\* TaskSerializer.validate: the error ("" when valid) and data['board'];
\* instance is the task being updated, None on create
TaskSerializer_validate(method, request_user, instance, data) ==
    LET board == IF method = "POST" THEN Get(data, "board")
                 ELSE IF instance # None THEN tasks[instance].board ELSE None
        assignee_id == Get(data, "assignee_id")
        reviewer_id == Get(data, "reviewer_id")
        err == IF method = "POST" /\ Get(data, "board") = None
                   THEN "board_id is required"
               ELSE IF method # "POST" /\ "board" \in DOMAIN data
                   THEN "Changing board is not allowed"
               ELSE IF board # None /\ request_user \notin boards[board].members
                   THEN "Not a member of the board"
               ELSE IF assignee_id # None /\ assignee_id \notin boards[board].members
                   THEN "Assignee is not a member of the board"
               ELSE IF reviewer_id # None /\ reviewer_id \notin boards[board].members
                   THEN "Reviewer is not a member of the board"
               ELSE ""
    IN  [err |-> err, board |-> board]

\* created_by is among the serializer's fields and comes with the payload
TaskSerializer_create_PayloadCreator(request_user, board, data) ==
    [board      |-> board,
     status     |-> IF "status" \in DOMAIN data THEN data["status"] ELSE StatusDefault,
     assignee   |-> Get(data, "assignee_id"),
     reviewer   |-> Get(data, "reviewer_id"),
     created_by |-> IF "created_by" \in DOMAIN data THEN data["created_by"]
                    ELSE request_user]

\* TaskSerializer.create: the new Task row; a status the payload does not
\* give is the model field's default
TaskSerializer_create(request_user, board, data) ==
    [board      |-> board,
     status     |-> IF "status" \in DOMAIN data THEN data["status"] ELSE StatusDefault,
     assignee   |-> Get(data, "assignee_id"),
     reviewer   |-> Get(data, "reviewer_id"),
     created_by |-> request_user]

\* a null assignee_id or reviewer_id is skipped as in create's `if assignee_id`
TaskSerializer_update_SkipNull(instance, board, data) ==
    [board      |-> board,
     status     |-> IF "status" \in DOMAIN data THEN data["status"] ELSE instance.status,
     assignee   |-> IF Get(data, "assignee_id") # None
                    THEN data["assignee_id"] ELSE instance.assignee,
     reviewer   |-> IF Get(data, "reviewer_id") # None
                    THEN data["reviewer_id"] ELSE instance.reviewer,
     created_by |-> instance.created_by]

\* TaskSerializer's update (ModelSerializer.update): every validated key is
\* set on the instance the view loaded, board being data['board'] of
\* validate, and instance.save() writes the row
TaskSerializer_update(instance, board, data) ==
    [board      |-> board,
     status     |-> IF "status" \in DOMAIN data THEN data["status"] ELSE instance.status,
     assignee   |-> IF "assignee_id" \in DOMAIN data
                    THEN data["assignee_id"] ELSE instance.assignee,
     reviewer   |-> IF "reviewer_id" \in DOMAIN data
                    THEN data["reviewer_id"] ELSE instance.reviewer,
     created_by |-> instance.created_by]

\* CommentSerializer's update (ModelSerializer.update): content is the only
\* field a payload writes, author is read-only and task is no field
CommentSerializer_update(instance, data) ==
    [task |-> instance.task, author |-> instance.author]

\* comments are left behind
CommentsOf_None(ts) == {}

\* the comments of the tasks ts (Comment.task is on_delete=CASCADE)
CommentsOf(ts) == {c \in DOMAIN comments : comments[c].task \in ts}

\* ------------------------------------------------------------------ request payloads
\* a member list is the set of its ids: the code reads it through
\* id__in and set(value) only
MemberLists == SUBSET Users \cup {{UnknownUser}}
UserIdInputs == Users \cup {None}
\* a status that is no choice of the field
BadStatus == "todo"

\* Payloads that leave Board.title and Task.status alone
BoardCreatePayloads == {[title |-> "a", members |-> ms] : ms \in MemberLists}
BoardUpdatePayloads == Opt("members", MemberLists)
LinkPayloads ==
    {a @@ r : a \in Opt("assignee_id", UserIdInputs), r \in Opt("reviewer_id", UserIdInputs)}
\* a create is refused before its links are read when it names no board, an
\* update when it names one
TaskCreatePayloads ==
    {<<>>} \cup {[board |-> b] @@ l : b \in BoardIds, l \in LinkPayloads}
TaskUpdatePayloads ==
    LinkPayloads \cup {[board |-> b] @@ a : b \in BoardIds, a \in Opt("assignee_id", UserIdInputs)}
CommentPayloads == Opt("board", BoardIds)

\* Payloads that name an owner, a creator or an author: owner_id and author
\* are read-only fields, created_by is no field of TaskSerializer
CreatorBoardCreatePayloads ==
    {p @@ o : p \in BoardCreatePayloads, o \in Opt("owner_id", Users)}
CreatorBoardUpdatePayloads ==
    {p @@ o : p \in BoardUpdatePayloads, o \in Opt("owner_id", Users)}
CreatorTaskCreatePayloads ==
    {[board |-> b] @@ o : b \in BoardIds, o \in Opt("created_by", Users)}
CreatorTaskUpdatePayloads ==
    {l @@ o : l \in Opt("assignee_id", UserIdInputs), o \in Opt("created_by", Users)}
CreatorCommentPayloads == Opt("author", Users)

\* Payloads that write Board.title
TitleBoardCreatePayloads == {[title |-> ti, members |-> ms] : ti \in Titles, ms \in MemberLists}
TitleBoardUpdatePayloads ==
    {ti @@ ms : ti \in Opt("title", Titles), ms \in Opt("members", MemberLists)}

\* Payloads that write Task.status
StatusTaskPayloads ==
    {b @@ s : b \in Opt("board", BoardIds), s \in Opt("status", STATUS_CHOICES \cup {BadStatus})}

\* ------------------------------------------------------------------ views.py
Init ==
    /\ boards = <<>>
    /\ tasks = <<>>
    /\ comments = <<>>
    /\ nextId = [board |-> 1, task |-> 1, comment |-> 1]
    /\ pending = [boardUpdate |-> {}, taskCreate |-> {}, taskUpdate |-> {}]
    /\ last = Ok("none", None, None, <<>>)

Store == <<boards, tasks, comments, nextId>>

Reply(r) == last' = r /\ UNCHANGED <<Store, pending>>

\* POST /boards/ (BoardViewSet.create with BoardSerializer)
BoardCreate(user, data) ==
    /\ nextId.board <= MaxBoards
    /\ LET id == nextId.board
           err == BoardSerializer_validate(data["members"])
       IN  IF err # ""
           THEN Reply(Invalid("BoardCreate", user, None, Keep(data), err, {}))
           ELSE /\ boards' = (id :> BoardSerializer_create(user, data["title"], data["members"]))
                              @@ boards
                /\ nextId' = [nextId EXCEPT !.board = id + 1]
                /\ last' = Ok("BoardCreate", user, id, Keep(data))
                /\ UNCHANGED <<tasks, comments, pending>>

\* BoardUpdateSerializer's validation: validate_members runs when the payload
\* has members; the error, the ids it lists and validated_data
BoardUpdateSerializer_is_valid(pk, data) ==
    IF "members" \in DOMAIN data
    THEN LET v == BoardUpdateSerializer_validate_members(pk, data["members"])
         IN  [err |-> v.err, ids |-> v.ids,
              validated_data |-> [data EXCEPT !["members"] = v.value]]
    ELSE [err |-> "", ids |-> {}, validated_data |-> data]

\* PUT/PATCH /boards/{pk}/ (BoardViewSet.update with BoardUpdateSerializer)
BoardUpdate(user, pk, data) ==
    IF pk \notin DOMAIN boards
    THEN Reply(Denied("BoardUpdate", user, pk, Keep(data), "NotFound"))
    ELSE IF ~IsBoardMemberOrOwner_has_object_permission("PATCH", user, pk)
    THEN Reply(Denied("BoardUpdate", user, pk, Keep(data), "Forbidden"))
    ELSE LET v == BoardUpdateSerializer_is_valid(pk, data)
         IN  IF v.err # ""
             THEN Reply(Invalid("BoardUpdate", user, pk, Keep(data), v.err, v.ids))
             ELSE /\ boards' = [boards EXCEPT
                                  ![pk] = BoardUpdateSerializer_update(
                                              pk, boards[pk], v.validated_data)]
                  /\ last' = Ok("BoardUpdate", user, pk, Keep(data))
                  /\ UNCHANGED <<tasks, comments, nextId, pending>>

\* DELETE /boards/{pk}/ (BoardViewSet.destroy); Task.board and Comment.task
\* are on_delete=CASCADE
BoardDelete(user, pk) ==
    IF pk \notin DOMAIN boards
    THEN Reply(Denied("BoardDelete", user, pk, <<>>, "NotFound"))
    ELSE IF ~IsBoardMemberOrOwner_has_object_permission("DELETE", user, pk)
    THEN Reply(Denied("BoardDelete", user, pk, <<>>, "Forbidden"))
    ELSE /\ boards' = Without(boards, {pk})
         /\ tasks' = Without(tasks, TasksOf(pk))
         /\ comments' = Without(comments, CommentsOf(TasksOf(pk)))
         /\ last' = Response("BoardDelete", user, pk, <<>>, "OK", "", {},
                             1 + Cardinality(TasksOf(pk))
                               + Cardinality(CommentsOf(TasksOf(pk))))
         /\ UNCHANGED <<nextId, pending>>

\* POST /tasks/ (TaskViewSet.create with TaskSerializer)
TaskCreate(user, data) ==
    /\ nextId.task <= MaxTasks
    /\ LET id == nextId.task
           perm == IsTaskBoardMemberOrOwner_has_permission("POST", user, data, <<>>)
           v == TaskSerializer_validate("POST", user, None, data)
       IN  IF perm # "OK"
           THEN Reply(Denied("TaskCreate", user, None, Keep(data), perm))
           ELSE IF TaskSerializer_fields(data) # ""
           THEN Reply(Invalid("TaskCreate", user, None, Keep(data),
                              TaskSerializer_fields(data), {}))
           ELSE IF v.err # ""
           THEN Reply(Invalid("TaskCreate", user, None, Keep(data), v.err, {}))
           ELSE /\ tasks' = (id :> TaskSerializer_create(user, v.board, data)) @@ tasks
                /\ nextId' = [nextId EXCEPT !.task = id + 1]
                /\ last' = Ok("TaskCreate", user, id, Keep(data))
                /\ UNCHANGED <<boards, comments, pending>>

\* PUT/PATCH /tasks/{pk}/ (TaskViewSet.update with TaskSerializer)
TaskUpdate(user, pk, data) ==
    LET perm == IsTaskBoardMemberOrOwner_has_permission("PATCH", user, data, [pk |-> pk])
        v == TaskSerializer_validate("PATCH", user, pk, data)
    IN  IF perm # "OK"
        THEN Reply(Denied("TaskUpdate", user, pk, Keep(data), perm))
        ELSE IF ~IsTaskBoardMemberOrOwner_has_object_permission("PATCH", user, pk)
        THEN Reply(Denied("TaskUpdate", user, pk, Keep(data), "Forbidden"))
        ELSE IF TaskSerializer_fields(data) # ""
        THEN Reply(Invalid("TaskUpdate", user, pk, Keep(data),
                           TaskSerializer_fields(data), {}))
        ELSE IF v.err # ""
        THEN Reply(Invalid("TaskUpdate", user, pk, Keep(data), v.err, {}))
        ELSE /\ tasks' = [tasks EXCEPT ![pk] = TaskSerializer_update(tasks[pk], v.board, data)]
             /\ last' = Ok("TaskUpdate", user, pk, Keep(data))
             /\ UNCHANGED <<boards, comments, nextId, pending>>

\* DELETE /tasks/{pk}/ (TaskViewSet.destroy)
TaskDelete(user, pk) ==
    LET perm == IsTaskBoardMemberOrOwner_has_permission("DELETE", user, <<>>, [pk |-> pk])
    IN  IF perm # "OK"
        THEN Reply(Denied("TaskDelete", user, pk, <<>>, perm))
        ELSE IF ~IsTaskBoardMemberOrOwner_has_object_permission("DELETE", user, pk)
        THEN Reply(Denied("TaskDelete", user, pk, <<>>, "Forbidden"))
        ELSE /\ tasks' = Without(tasks, {pk})
             /\ comments' = Without(comments, CommentsOf({pk}))
             /\ last' = Response("TaskDelete", user, pk, <<>>, "OK", "", {},
                                 1 + Cardinality(CommentsOf({pk})))
             /\ UNCHANGED <<boards, nextId, pending>>

\* POST /tasks/{task_pk}/comments/ (TaskCommentViewSet.create, perform_create)
CommentCreate(user, task_pk, data) ==
    /\ nextId.comment <= MaxComments
    /\ LET id == nextId.comment
           kwargs == [task_pk |-> task_pk]
           perm == IsTaskBoardMemberOrOwner_has_permission("POST", user, data, kwargs)
       IN  IF perm # "OK"
           THEN Reply(Denied("CommentCreate", user, None, kwargs @@ Keep(data), perm))
           ELSE IF task_pk \notin DOMAIN tasks
           THEN Reply(Denied("CommentCreate", user, None, kwargs @@ Keep(data), "NotFound"))
           ELSE /\ comments' = (id :> [task |-> task_pk, author |-> user]) @@ comments
                /\ nextId' = [nextId EXCEPT !.comment = id + 1]
                /\ last' = Ok("CommentCreate", user, id, kwargs @@ Keep(data))
                /\ UNCHANGED <<boards, tasks, pending>>

\* TaskCommentViewSet.get_object: the comment pk of task task_pk, None for a 404
TaskCommentViewSet_get_object(task_pk, pk) ==
    IF pk \in DOMAIN comments /\ comments[pk].task = task_pk THEN pk ELSE None

\* DELETE /tasks/{task_pk}/comments/{pk}/ (TaskCommentViewSet.destroy)
CommentDelete(user, task_pk, pk) ==
    LET obj == TaskCommentViewSet_get_object(task_pk, pk)
        kwargs == [task_pk |-> task_pk]
    IN  IF obj = None
        THEN Reply(Denied("CommentDelete", user, pk, kwargs, "NotFound"))
        ELSE IF ~IsCommentAuthor_has_object_permission(user, obj)
        THEN Reply(Denied("CommentDelete", user, pk, kwargs, "Forbidden"))
        ELSE /\ comments' = Without(comments, {obj})
             /\ last' = Response("CommentDelete", user, pk, kwargs, "OK", "", {}, 1)
             /\ UNCHANGED <<boards, tasks, nextId, pending>>

\* GET /boards/{pk}/ (BoardViewSet.retrieve)
BoardRetrieve(user, pk) ==
    IF pk \notin DOMAIN boards
    THEN Reply(Denied("BoardRetrieve", user, pk, <<>>, "NotFound"))
    ELSE IF ~IsBoardMemberOrOwner_has_object_permission("GET", user, pk)
    THEN Reply(Denied("BoardRetrieve", user, pk, <<>>, "Forbidden"))
    ELSE Reply(Ok("BoardRetrieve", user, pk, <<>>))

\* the rows of Board joined with its members (a LEFT OUTER JOIN: a board
\* without members has one row) that Q(owner=user) | Q(members=user) keeps
BoardMemberRows(user) ==
    {r \in UNION {{<<b, m>> : m \in IF boards[b].members = {} THEN {None}
                                    ELSE boards[b].members} : b \in DOMAIN boards} :
        boards[r[1]].owner = user \/ r[2] = user}

\* the filter without .distinct(): a board is listed once for each of its rows
BoardViewSet_get_queryset_Rows(user) ==
    {<<b, Cardinality({r \in BoardMemberRows(user) : r[1] = b})>> :
        b \in {r[1] : r \in BoardMemberRows(user)}}

\* BoardViewSet.get_queryset for the list action: <<b, n>> for every board
\* listed, n the times it is listed
BoardViewSet_get_queryset(user) ==
    {<<b, 1>> : b \in {r[1] : r \in BoardMemberRows(user)}}

\* GET /boards/ (BoardViewSet.list)
BoardList(user) ==
    Reply(Response("BoardList", user, None, <<>>, "OK", "",
                   BoardViewSet_get_queryset(user), 0))

\* GET /tasks/{pk}/ (TaskViewSet.retrieve)
TaskRetrieve(user, pk) ==
    LET perm == IsTaskBoardMemberOrOwner_has_permission("GET", user, <<>>, [pk |-> pk])
    IN  IF perm # "OK"
        THEN Reply(Denied("TaskRetrieve", user, pk, <<>>, perm))
        ELSE IF ~IsTaskBoardMemberOrOwner_has_object_permission("GET", user, pk)
        THEN Reply(Denied("TaskRetrieve", user, pk, <<>>, "Forbidden"))
        ELSE Reply(Ok("TaskRetrieve", user, pk, <<>>))

\* Task.objects.filter(reviewer=request.user) in place of the assignee
TaskViewSet_assigned_Reviewer(user) ==
    {<<t, Cardinality(CommentsOf({t}))>> :
        t \in {t \in DOMAIN tasks : tasks[t].reviewer = user}}

\* TaskViewSet.assigned: <<t, comments_count>> for every task it returns
TaskViewSet_assigned(user) ==
    {<<t, Cardinality(CommentsOf({t}))>> :
        t \in {t \in DOMAIN tasks : tasks[t].assignee = user}}

\* TaskViewSet.reviewed: <<t, comments_count>> for every task it returns
TaskViewSet_reviewed(user) ==
    {<<t, Cardinality(CommentsOf({t}))>> :
        t \in {t \in DOMAIN tasks : tasks[t].reviewer = user}}

\* GET /tasks/assigned-to-me/ (permission_classes=[IsAuthenticated])
TaskAssigned(user) ==
    Reply(Response("TaskAssigned", user, None, <<>>, "OK", "",
                   TaskViewSet_assigned(user), 0))

\* GET /tasks/reviewing/ (permission_classes=[IsAuthenticated])
TaskReviewed(user) ==
    Reply(Response("TaskReviewed", user, None, <<>>, "OK", "",
                   TaskViewSet_reviewed(user), 0))

\* GET /tasks/{task_pk}/comments/{pk}/ (TaskCommentViewSet.retrieve); the
\* permission sees both kwargs of the route, get_object checks no object
\* permission
CommentRetrieve(user, task_pk, pk) ==
    LET kwargs == [task_pk |-> task_pk, pk |-> pk]
        perm == IsTaskBoardMemberOrOwner_has_permission("GET", user, <<>>, kwargs)
        obj == TaskCommentViewSet_get_object(task_pk, pk)
    IN  IF perm # "OK"
        THEN Reply(Denied("CommentRetrieve", user, pk, [task_pk |-> task_pk], perm))
        ELSE IF obj = None
        THEN Reply(Denied("CommentRetrieve", user, pk, [task_pk |-> task_pk], "NotFound"))
        ELSE Reply(Ok("CommentRetrieve", user, pk, [task_pk |-> task_pk]))

\* PUT/PATCH /tasks/{task_pk}/comments/{pk}/ (TaskCommentViewSet.update)
CommentUpdate(user, task_pk, pk, data) ==
    LET kwargs == [task_pk |-> task_pk, pk |-> pk]
        perm == IsTaskBoardMemberOrOwner_has_permission("PATCH", user, data, kwargs)
        obj == TaskCommentViewSet_get_object(task_pk, pk)
    IN  IF perm # "OK"
        THEN Reply(Denied("CommentUpdate", user, pk, [task_pk |-> task_pk], perm))
        ELSE IF obj = None
        THEN Reply(Denied("CommentUpdate", user, pk, [task_pk |-> task_pk], "NotFound"))
        ELSE /\ comments' = [comments EXCEPT
                                ![obj] = CommentSerializer_update(comments[obj], data)]
             /\ last' = Ok("CommentUpdate", user, pk, [task_pk |-> task_pk])
             /\ UNCHANGED <<boards, tasks, nextId, pending>>

\* TaskCommentViewSet.get_queryset: the comments of task task_pk
TaskCommentViewSet_get_queryset(task_pk) ==
    {c \in DOMAIN comments : comments[c].task = task_pk}

\* GET /tasks/{task_pk}/comments/ (TaskCommentViewSet.list)
CommentList(user, task_pk) ==
    LET kwargs == [task_pk |-> task_pk]
        perm == IsTaskBoardMemberOrOwner_has_permission("GET", user, <<>>, kwargs)
    IN  IF perm # "OK"
        THEN Reply(Denied("CommentList", user, None, kwargs, perm))
        ELSE Reply(Response("CommentList", user, None, kwargs, "OK", "",
                            TaskCommentViewSet_get_queryset(task_pk), 0))

\* ------------------------------------------------------------------ specifications
\* Every request of the API, with payloads that leave title and status alone
Next ==
    \/ \E user \in Users, data \in BoardCreatePayloads : BoardCreate(user, data)
    \/ \E user \in Users, pk \in BoardIds, data \in BoardUpdatePayloads :
           BoardUpdate(user, pk, data)
    \/ \E user \in Users, pk \in BoardIds : BoardDelete(user, pk)
    \/ \E user \in Users, data \in TaskCreatePayloads : TaskCreate(user, data)
    \/ \E user \in Users, pk \in TaskIds, data \in TaskUpdatePayloads :
           TaskUpdate(user, pk, data)
    \/ \E user \in Users, pk \in TaskIds : TaskDelete(user, pk)
    \/ \E user \in Users, task_pk \in TaskIds, data \in CommentPayloads :
           nextId.comment <= MaxCommentsAll /\ CommentCreate(user, task_pk, data)
    \/ \E user \in Users, task_pk \in TaskIds, pk \in CommentIds :
           CommentDelete(user, task_pk, pk)

Spec == Init /\ [][Next]_vars

\* Board and task create and update, with payloads that write Board.title
NextTitle ==
    \/ \E user \in Users, data \in TitleBoardCreatePayloads : BoardCreate(user, data)
    \/ \E user \in Users, pk \in BoardIds, data \in TitleBoardUpdatePayloads :
           BoardUpdate(user, pk, data)
    \/ \E user \in Users, data \in TaskCreatePayloads : TaskCreate(user, data)
    \/ \E user \in Users, pk \in TaskIds, data \in TaskUpdatePayloads :
           TaskUpdate(user, pk, data)

SpecTitle == Init /\ [][NextTitle]_vars

\* Board create, task create and update, with payloads that write Task.status
NextStatus ==
    \/ \E user \in Users, data \in BoardCreatePayloads : BoardCreate(user, data)
    \/ \E user \in Users, data \in StatusTaskPayloads : TaskCreate(user, data)
    \/ \E user \in Users, pk \in TaskIds, data \in StatusTaskPayloads :
           TaskUpdate(user, pk, data)

SpecStatus == Init /\ [][NextStatus]_vars

\* The boards: create, update and delete, retrieve and list, with the tasks
\* and comments a delete takes along
NextBoard ==
    \/ \E user \in Users, data \in BoardCreatePayloads : BoardCreate(user, data)
    \/ \E user \in Users, pk \in BoardIds, data \in BoardUpdatePayloads :
           BoardUpdate(user, pk, data)
    \/ \E user \in Users, pk \in BoardIds : BoardDelete(user, pk)
    \/ \E user \in Users, pk \in BoardIds : BoardRetrieve(user, pk)
    \/ \E user \in Users : BoardList(user)
    \/ \E user \in Users, b \in BoardIds : TaskCreate(user, [board |-> b])
    \/ \E user \in Users, task_pk \in TaskIds : CommentCreate(user, task_pk, <<>>)

SpecBoard == Init /\ [][NextBoard]_vars

\* The tasks: create, update and retrieve, the views of the tasks assigned to
\* and reviewed by a user, and the comments they count
NextTask ==
    \/ \E user \in Users, data \in BoardCreatePayloads : BoardCreate(user, data)
    \/ \E user \in Users, pk \in BoardIds, data \in BoardUpdatePayloads :
           BoardUpdate(user, pk, data)
    \/ \E user \in Users, data \in TaskCreatePayloads : TaskCreate(user, data)
    \/ \E user \in Users, pk \in TaskIds, data \in TaskUpdatePayloads :
           TaskUpdate(user, pk, data)
    \/ \E user \in Users, pk \in TaskIds : TaskRetrieve(user, pk)
    \/ \E user \in Users : TaskAssigned(user)
    \/ \E user \in Users : TaskReviewed(user)
    \/ \E user \in Users, task_pk \in TaskIds : CommentCreate(user, task_pk, <<>>)

SpecTask == Init /\ [][NextTask]_vars

\* Payloads of a task an owner assigns to somebody else, and of the update
\* that unassigns it
AssignedTaskPayloads(b, m) ==
    {[board |-> b, assignee_id |-> m] @@ r : r \in Opt("reviewer_id", UserIdInputs)}
UnassignPayload == [assignee_id |-> None]

\* Removing a member who has a task: the owner of a board creates tasks
\* assigned to another user, tasks are unassigned, members are replaced
NextUnassign ==
    \/ \E user \in Users, data \in BoardCreatePayloads : BoardCreate(user, data)
    \/ \E user \in Users, pk \in BoardIds, data \in BoardUpdatePayloads :
           BoardUpdate(user, pk, data)
    \/ \E b \in DOMAIN boards :
           \E m \in Users \ {boards[b].owner} :
               \E data \in AssignedTaskPayloads(b, m) : TaskCreate(boards[b].owner, data)
    \/ \E user \in Users, pk \in TaskIds : TaskUpdate(user, pk, UnassignPayload)

SpecUnassign == Init /\ [][NextUnassign]_vars

\* Creates and updates of boards, tasks and comments whose payloads name an
\* owner, a creator or an author
NextCreator ==
    \/ \E user \in Users, data \in CreatorBoardCreatePayloads : BoardCreate(user, data)
    \/ \E user \in Users, pk \in BoardIds, data \in CreatorBoardUpdatePayloads :
           BoardUpdate(user, pk, data)
    \/ \E user \in Users, data \in CreatorTaskCreatePayloads : TaskCreate(user, data)
    \/ \E user \in Users, pk \in TaskIds, data \in CreatorTaskUpdatePayloads :
           TaskUpdate(user, pk, data)
    \/ \E user \in Users, task_pk \in TaskIds, data \in CreatorCommentPayloads :
           CommentCreate(user, task_pk, data)
    \/ \E user \in Users, task_pk \in TaskIds, pk \in CommentIds,
             data \in CreatorCommentPayloads :
           CommentUpdate(user, task_pk, pk, data)

SpecCreator == Init /\ [][NextCreator]_vars

\* The comments of the tasks: boards and their members, tasks, and the create,
\* retrieve, update and list of comments
NextComment ==
    \/ \E user \in Users, data \in BoardCreatePayloads : BoardCreate(user, data)
    \/ \E user \in Users, pk \in BoardIds, data \in BoardUpdatePayloads :
           BoardUpdate(user, pk, data)
    \/ \E user \in Users, b \in BoardIds : TaskCreate(user, [board |-> b])
    \/ \E user \in Users, task_pk \in TaskIds : CommentCreate(user, task_pk, <<>>)
    \/ \E user \in Users, task_pk \in TaskIds, pk \in CommentIds :
           CommentRetrieve(user, task_pk, pk)
    \/ \E user \in Users, task_pk \in TaskIds, pk \in CommentIds,
             data \in CreatorCommentPayloads :
           CommentUpdate(user, task_pk, pk, data)
    \/ \E user \in Users, task_pk \in TaskIds : CommentList(user, task_pk)

SpecComment == Init /\ [][NextComment]_vars

\* ------------------------------------------------------------------ concurrent requests
\* No view runs in a transaction (no transaction.atomic, no select_for_update):
\* a request reads and validates, and writes in later statements. A request
\* is two steps here, and between them other requests take theirs.
InFlight ==
    Cardinality(pending.boardUpdate) + Cardinality(pending.taskCreate)
        + Cardinality(pending.taskUpdate)

\* BoardViewSet.update up to serializer.is_valid()
BoardUpdateBegin(user, pk, data) ==
    /\ InFlight < MaxInFlight
    /\ IF pk \notin DOMAIN boards
       THEN Reply(Denied("BoardUpdate", user, pk, Keep(data), "NotFound"))
       ELSE IF ~IsBoardMemberOrOwner_has_object_permission("PATCH", user, pk)
       THEN Reply(Denied("BoardUpdate", user, pk, Keep(data), "Forbidden"))
       ELSE LET v == BoardUpdateSerializer_is_valid(pk, data)
            IN  IF v.err # ""
                THEN Reply(Invalid("BoardUpdate", user, pk, Keep(data), v.err, v.ids))
                ELSE /\ pending' = [pending EXCEPT !.boardUpdate = @ \cup
                                       {[user |-> user, pk |-> pk, req |-> Keep(data),
                                         instance |-> boards[pk],
                                         validated_data |-> v.validated_data]}]
                     /\ UNCHANGED <<Store, last>>

\* BoardUpdateSerializer.update of a validated request
BoardUpdateFinish(r) ==
    /\ boards' = [boards EXCEPT
                    ![r.pk] = BoardUpdateSerializer_update(r.pk, r.instance, r.validated_data)]
    /\ pending' = [pending EXCEPT !.boardUpdate = @ \ {r}]
    /\ last' = Ok("BoardUpdate", r.user, r.pk, r.req)
    /\ UNCHANGED <<tasks, comments, nextId>>

\* TaskViewSet.create up to serializer.is_valid()
TaskCreateBegin(user, data) ==
    /\ InFlight < MaxInFlight
    /\ nextId.task + Cardinality(pending.taskCreate) <= MaxTasks
    /\ LET perm == IsTaskBoardMemberOrOwner_has_permission("POST", user, data, <<>>)
           v == TaskSerializer_validate("POST", user, None, data)
       IN  IF perm # "OK"
           THEN Reply(Denied("TaskCreate", user, None, Keep(data), perm))
           ELSE IF TaskSerializer_fields(data) # ""
           THEN Reply(Invalid("TaskCreate", user, None, Keep(data),
                              TaskSerializer_fields(data), {}))
           ELSE IF v.err # ""
           THEN Reply(Invalid("TaskCreate", user, None, Keep(data), v.err, {}))
           ELSE /\ pending' = [pending EXCEPT !.taskCreate = @ \cup
                                  {[user |-> user, req |-> Keep(data),
                                    row |-> TaskSerializer_create(user, v.board, data)]}]
                /\ UNCHANGED <<Store, last>>

\* TaskSerializer.create of a validated request
TaskCreateFinish(r) ==
    /\ tasks' = (nextId.task :> r.row) @@ tasks
    /\ nextId' = [nextId EXCEPT !.task = @ + 1]
    /\ pending' = [pending EXCEPT !.taskCreate = @ \ {r}]
    /\ last' = Ok("TaskCreate", r.user, nextId.task, r.req)
    /\ UNCHANGED <<boards, comments>>

\* TaskViewSet.update up to serializer.is_valid()
TaskUpdateBegin(user, pk, data) ==
    /\ InFlight < MaxInFlight
    /\ LET perm == IsTaskBoardMemberOrOwner_has_permission("PATCH", user, data, [pk |-> pk])
           v == TaskSerializer_validate("PATCH", user, pk, data)
       IN  IF perm # "OK"
           THEN Reply(Denied("TaskUpdate", user, pk, Keep(data), perm))
           ELSE IF ~IsTaskBoardMemberOrOwner_has_object_permission("PATCH", user, pk)
           THEN Reply(Denied("TaskUpdate", user, pk, Keep(data), "Forbidden"))
           ELSE IF TaskSerializer_fields(data) # ""
           THEN Reply(Invalid("TaskUpdate", user, pk, Keep(data),
                              TaskSerializer_fields(data), {}))
           ELSE IF v.err # ""
           THEN Reply(Invalid("TaskUpdate", user, pk, Keep(data), v.err, {}))
           ELSE /\ pending' = [pending EXCEPT !.taskUpdate = @ \cup
                                  {[user |-> user, pk |-> pk, req |-> Keep(data),
                                    row |-> TaskSerializer_update(tasks[pk], v.board, data)]}]
                /\ UNCHANGED <<Store, last>>

\* the instance.save() of a validated task update
TaskUpdateFinish(r) ==
    /\ tasks' = [tasks EXCEPT ![r.pk] = r.row]
    /\ pending' = [pending EXCEPT !.taskUpdate = @ \ {r}]
    /\ last' = Ok("TaskUpdate", r.user, r.pk, r.req)
    /\ UNCHANGED <<boards, comments, nextId>>

\* Payloads of the requests that race: a member list, a link
ConcBoardUpdatePayloads == {[members |-> ms] : ms \in SUBSET Users}
ConcLinkPayloads ==
    {[assignee_id |-> u] : u \in UserIdInputs} \cup {[reviewer_id |-> u] : u \in UserIdInputs}
ConcTaskCreatePayloads == {[board |-> b] @@ l : b \in BoardIds, l \in ConcLinkPayloads}

\* One board; its updates and the creates and updates of its tasks run
\* concurrently
NextConc ==
    \/ \E user \in Users, data \in BoardCreatePayloads :
           nextId.board = 1 /\ BoardCreate(user, data)
    \/ \E user \in Users, pk \in BoardIds, data \in ConcBoardUpdatePayloads :
           BoardUpdateBegin(user, pk, data)
    \/ \E r \in pending.boardUpdate : BoardUpdateFinish(r)
    \/ \E user \in Users, data \in ConcTaskCreatePayloads : TaskCreateBegin(user, data)
    \/ \E r \in pending.taskCreate : TaskCreateFinish(r)
    \/ \E user \in Users, pk \in TaskIds, data \in ConcLinkPayloads :
           TaskUpdateBegin(user, pk, data)
    \/ \E r \in pending.taskUpdate : TaskUpdateFinish(r)

SpecConc == Init /\ [][NextConc]_vars

\* ------------------------------------------------------------------ properties
\* C1: the owner of every board is a member of it, after any sequence of
\* requests, whatever member lists the board creates and updates carried.
C1_OwnerIsMember ==
    \A b \in DOMAIN boards : boards[b].owner \in boards[b].members

\* a member who is not the owner has replaced the members by a list without the owner
C1_Witness ==
    /\ last.op = "BoardUpdate" /\ last.res = "OK"
    /\ "members" \in DOMAIN last.req
    /\ boards[last.id].owner \notin last.req["members"]
    /\ last.actor # boards[last.id].owner
    /\ boards[last.id].owner \in boards[last.id].members

\* C2: the assignee and the reviewer of every task, when set, are members of
\* the task's board.
C2_LinksAreMembers ==
    \A t \in DOMAIN tasks :
        /\ tasks[t].assignee # None => tasks[t].assignee \in boards[tasks[t].board].members
        /\ tasks[t].reviewer # None => tasks[t].reviewer \in boards[tasks[t].board].members

\* a task is linked to two users and a board update that drops one was refused
C2_Witness ==
    /\ \E t \in DOMAIN tasks : /\ tasks[t].assignee # None
                               /\ tasks[t].reviewer # None
                               /\ tasks[t].assignee # tasks[t].reviewer
    /\ last.op = "BoardUpdate" /\ last.msg = "users linked to tasks"

\* C3: a board update by an owner or member whose member list (with the owner
\* added) drops a current member who is assignee or reviewer of a task of the
\* board fails validation and leaves every board row (members and title) as
\* it was.
C3_BlockedUpdateRejected ==
    [][(/\ last'.op = "BoardUpdate"
        /\ last'.id \in DOMAIN boards
        /\ IsOwnerOrMember(last'.actor, last'.id)
        /\ "members" \in DOMAIN last'.req
        /\ LET b == last'.id
               removed == boards[b].members \ (last'.req["members"] \cup {boards[b].owner})
           IN  \E t \in DOMAIN tasks : /\ tasks[t].board = b
                                       /\ \/ tasks[t].assignee \in removed
                                          \/ tasks[t].reviewer \in removed)
       => (last'.res = "ValidationFailed" /\ boards' = boards)]_vars

\* a refused update that also carried another title
C3_Witness ==
    /\ last.op = "BoardUpdate" /\ last.res = "ValidationFailed"
    /\ last.msg = "users linked to tasks"
    /\ "title" \in DOMAIN last.req
    /\ last.req["title"] # boards[last.id].title

\* C4: a task delete succeeds exactly when the actor is the owner of the
\* task's board or the creator of the task.
C4_DeleteIffOwnerOrCreator ==
    [][(last'.op = "TaskDelete" /\ last'.id \in DOMAIN tasks)
       => (last'.res = "OK" <=> \/ boards[tasks[last'.id].board].owner = last'.actor
                                \/ tasks[last'.id].created_by = last'.actor)]_vars

\* C5: whoever created a comment is owner or member of the board of the
\* comment's task.
C5_CommentByMemberOnly ==
    (last.op = "CommentCreate" /\ last.res = "OK")
    => IsOwnerOrMember(last.actor, tasks[comments[last.id].task].board)

\* C6: a delete of an existing comment succeeds exactly when the actor is its
\* author; anyone else gets Forbidden and the comment stays, and after the
\* author's delete the comment is gone.
C6_DeleteIffAuthor ==
    [][(/\ last'.op = "CommentDelete"
        /\ last'.id \in DOMAIN comments
        /\ comments[last'.id].task = last'.req["task_pk"])
       => IF comments[last'.id].author = last'.actor
          THEN last'.res = "OK" /\ last'.id \notin DOMAIN comments'
          ELSE last'.res = "Forbidden" /\ comments' = comments]_vars

\* the author, who is no longer owner or member of the board, has deleted the comment
C6_Witness ==
    /\ last.op = "CommentDelete" /\ last.res = "OK"
    /\ last.id \notin DOMAIN comments
    /\ last.req["task_pk"] \in DOMAIN tasks
    /\ ~IsOwnerOrMember(last.actor, tasks[last.req["task_pk"]].board)

\* C7: every task refers to an existing board and every comment to an
\* existing task.
C7_NoOrphans ==
    /\ \A t \in DOMAIN tasks : tasks[t].board \in DOMAIN boards
    /\ \A c \in DOMAIN comments : comments[c].task \in DOMAIN tasks

\* a board was deleted together with a task and a comment
C7_Witness ==
    last.op = "BoardDelete" /\ last.res = "OK" /\ last.deleted >= 3

\* C8: with requests running concurrently, the assignee and the reviewer of
\* every task, when set, are still members of the task's board.
C8_LinksAreMembersConcurrent ==
    \A t \in DOMAIN tasks :
        \A u \in {tasks[t].assignee, tasks[t].reviewer} \ {None} :
            u \in boards[tasks[t].board].members

\* C9: the status of every task is one of the four choices.
C9_StatusIsChoice ==
    \A t \in DOMAIN tasks : tasks[t].status \in STATUS_CHOICES

\* C10: a task update whose payload has a board is never carried out and
\* changes nothing, it fails validation when the actor is owner or member of
\* the task's board, and no request changes the board of a task.
C10_BoardImmutable ==
    [][/\ (last'.op = "TaskUpdate" /\ "board" \in DOMAIN last'.req)
          => /\ last'.res # "OK"
             /\ UNCHANGED Store
             /\ (last'.id \in DOMAIN tasks /\ IsOwnerOrMember(last'.actor, tasks[last'.id].board))
                => last'.res = "ValidationFailed"
       /\ \A t \in DOMAIN tasks \cap DOMAIN tasks' : tasks'[t].board = tasks[t].board]_vars

\* an update that named the task's own board was refused
C10_Witness ==
    /\ last.op = "TaskUpdate" /\ last.msg = "Changing board is not allowed"
    /\ last.req["board"] = tasks[last.id].board

\* C11: a retrieve or an update of an existing comment through the route of
\* its task, and a list of the comments of an existing task, is permitted
\* exactly when the actor is owner or member of the board of that task.
C11_CommentReadWriteIffMember ==
    /\ (/\ last.op \in {"CommentRetrieve", "CommentUpdate"}
        /\ last.id \in DOMAIN comments
        /\ comments[last.id].task = last.req["task_pk"])
       => (last.res = "OK"
             <=> IsOwnerOrMember(last.actor, tasks[comments[last.id].task].board))
    /\ (last.op = "CommentList" /\ last.req["task_pk"] \in DOMAIN tasks)
       => (last.res = "OK"
             <=> IsOwnerOrMember(last.actor, tasks[last.req["task_pk"]].board))

C13_BoardAccess ==
    [][/\ (last'.op = "BoardRetrieve" /\ last'.id \in DOMAIN boards)
          => (last'.res = "OK" <=> IsOwnerOrMember(last'.actor, last'.id))
       /\ (last'.op = "BoardUpdate" /\ last'.id \in DOMAIN boards)
          => /\ last'.res \in {"OK", "ValidationFailed"}
                  <=> IsOwnerOrMember(last'.actor, last'.id)
             /\ "members" \notin DOMAIN last'.req
                  => (last'.res = "OK" <=> IsOwnerOrMember(last'.actor, last'.id))
             /\ last'.res # "OK" => UNCHANGED Store
       /\ (last'.op = "BoardDelete" /\ last'.id \in DOMAIN boards)
          => IF boards[last'.id].owner = last'.actor
             THEN last'.res = "OK" /\ last'.id \notin DOMAIN boards'
             ELSE last'.res = "Forbidden" /\ UNCHANGED Store
       /\ last'.op = "BoardList"
          => /\ {e[1] : e \in last'.ids}
                  = {b \in DOMAIN boards : IsOwnerOrMember(last'.actor, b)}
             /\ \A e \in last'.ids : e[2] = 1]_vars

\* a member who is not the owner was refused the delete of a board that has
\* a task and a comment
C13_Witness ==
    /\ last.op = "BoardDelete" /\ last.res = "Forbidden"
    /\ last.id \in DOMAIN boards
    /\ last.actor \in boards[last.id].members
    /\ \E c \in DOMAIN comments : tasks[comments[c].task].board = last.id

\* C14: where the owner of a board creates tasks assigned to another user M
\* and task updates carry assignee null: a board update by the owner with a
\* list of existing users that drops M is refused while M is assignee of a
\* task of the board, the error lists M and no board changes; a successful
\* task update leaves the task without assignee; and once no dropped member
\* is assignee or reviewer of a task of the board, the same board update
\* succeeds and the dropped members are members no more.
C14_RemoveAfterUnassign ==
    [][/\ (last'.op = "TaskUpdate" /\ last'.res = "OK")
          => tasks'[last'.id].assignee = None
       /\ (/\ last'.op = "BoardUpdate"
           /\ last'.id \in DOMAIN boards
           /\ last'.actor = boards[last'.id].owner
           /\ "members" \in DOMAIN last'.req
           /\ last'.req["members"] \subseteq Users)
          => LET b == last'.id
                 dropped == boards[b].members \ (last'.req["members"] \cup {last'.actor})
                 ofBoard == {t \in DOMAIN tasks : tasks[t].board = b}
             IN  /\ \A M \in dropped :
                        (\E t \in ofBoard : tasks[t].assignee = M)
                        => /\ last'.res = "ValidationFailed"
                           /\ M \in last'.ids
                           /\ boards' = boards
                 /\ (\A t \in ofBoard : /\ tasks[t].assignee \notin dropped
                                         /\ tasks[t].reviewer \notin dropped)
                    => /\ last'.res = "OK"
                       /\ boards'[b].members \cap dropped = {}
                       /\ boards'[b].members = last'.req["members"] \cup {last'.actor}]_vars

\* the owner has dropped the user whose task was unassigned before
C14_Witness ==
    /\ last.op = "BoardUpdate" /\ last.res = "OK"
    /\ last.actor = boards[last.id].owner
    /\ boards[last.id].members = {last.actor}
    /\ \E t \in DOMAIN tasks : /\ tasks[t].board = last.id
                               /\ tasks[t].created_by = last.actor
                               /\ tasks[t].assignee = None

\* C15: the view of the tasks assigned to an actor returns exactly the tasks
\* whose assignee is the actor, the view of the tasks the actor reviews
\* exactly those whose reviewer is the actor, each with the number of comments
\* the task has; and a task is in both views of an actor, asked one after the
\* other, exactly when the actor is both its assignee and its reviewer.
C15_AssignedAndReviewedViews ==
    [][/\ last'.op = "TaskAssigned"
          => /\ {e[1] : e \in last'.ids}
                  = {t \in DOMAIN tasks : tasks[t].assignee = last'.actor}
             /\ \A e \in last'.ids :
                    e[2] = Cardinality({c \in DOMAIN comments : comments[c].task = e[1]})
       /\ last'.op = "TaskReviewed"
          => /\ {e[1] : e \in last'.ids}
                  = {t \in DOMAIN tasks : tasks[t].reviewer = last'.actor}
             /\ \A e \in last'.ids :
                    e[2] = Cardinality({c \in DOMAIN comments : comments[c].task = e[1]})
       /\ (last.op = "TaskAssigned" /\ last'.op = "TaskReviewed" /\ last'.actor = last.actor)
          => \A t \in DOMAIN tasks :
                 (t \in {e[1] : e \in last.ids} /\ t \in {e[1] : e \in last'.ids})
                 <=> (tasks[t].assignee = last.actor /\ tasks[t].reviewer = last.actor)]_vars

\* a user is shown a task that has two comments, is not shown it as its
\* reviewer, and the task has another reviewer
C15_Witness ==
    /\ last.op = "TaskAssigned"
    /\ \E e \in last.ids : /\ e[2] = 2
                            /\ tasks[e[1]].reviewer \notin {None, last.actor}

\* C16: the owner of a created board, the created_by of a created task and
\* the author of a created comment are the actor of the create request,
\* whatever owner, creator or author its payload names, and no create or
\* update request changes them on a row that stays.
C16_CreatorIsActorAndFixed ==
    [][/\ (last'.op = "BoardCreate" /\ last'.res = "OK")
          => boards'[last'.id].owner = last'.actor
       /\ (last'.op = "TaskCreate" /\ last'.res = "OK")
          => tasks'[last'.id].created_by = last'.actor
       /\ (last'.op = "CommentCreate" /\ last'.res = "OK")
          => comments'[last'.id].author = last'.actor
       /\ \A b \in DOMAIN boards \cap DOMAIN boards' : boards'[b].owner = boards[b].owner
       /\ \A t \in DOMAIN tasks \cap DOMAIN tasks' :
              tasks'[t].created_by = tasks[t].created_by
       /\ \A c \in DOMAIN comments \cap DOMAIN comments' :
              comments'[c].author = comments[c].author]_vars

\* a comment was updated by a user who is not its author, on a task whose
\* creator is not the owner of the board
C16_Witness ==
    /\ last.op = "CommentUpdate" /\ last.res = "OK"
    /\ comments[last.id].author # last.actor
    /\ tasks[comments[last.id].task].created_by
           # boards[tasks[comments[last.id].task].board].owner

====
